---- MODULE Spec2Model ----
(***************************************************************************)
(* Model of finance/python-black-scholes-merton.ipynb (Python 2 + NumPy):  *)
(* the Monte Carlo pricing pipeline  bsm -> np.maximum -> sum/n -> discount *)
(* and the arithmetic it runs on (PipelineSpec), and the notebook's cells  *)
(* and slider callbacks run on one kernel, in any order (Spec) and from    *)
(* top to bottom (RunAllSpec), and the two statements that divide integers *)
(* (DivisionSpec).                                                         *)
(*                                                                         *)
(* Numbers.  The notebook computes in IEEE binary64.  The model computes   *)
(* in a decimal floating point of the same shape: a value is               *)
(*     [c |-> "fin", m |-> mantissa, e |-> exponent]   =  m * 10^e         *)
(* with a normalised mantissa of Digits decimal digits (binary64 carries   *)
(* about 16), or an infinity, or NaN.  An arithmetic operation takes its   *)
(* exact result to an infinity when it is above the largest double         *)
(* (1.797693134e308), to zero when it is at or below half the smallest     *)
(* positive double (2.47032822e-324), as binary64 does, and otherwise      *)
(* rounds it to Digits digits (halves away from zero, and never out of     *)
(* range); exp and sqrt are within a unit of the last digit of that.  So   *)
(* zeros, infinities, NaNs, signs and orderings are the notebook's, and a  *)
(* magnitude is the notebook's up to rounding errors of relative size      *)
(* 10^-Digits per operation, which compound as binary64's own (of size     *)
(* 10^-16) do.  The spacing of subnormal doubles is not modelled: a value  *)
(* between 2.47e-324 and 2.2e-308 keeps Digits digits.                     *)
(***************************************************************************)
EXTENDS Integers, Sequences, FiniteSets, TLC

(***************************************************************************)
(* The floating point format.                                              *)
(***************************************************************************)
Digits == 4
MaxExp10 == 308
MaxMant == 1797693134
MinExp10 == -324
MinMant == 247032822

RECURSIVE Pow10(_)
Pow10(k) == IF k <= 0 THEN 1 ELSE 10 * Pow10(k - 1)

MantLo == Pow10(Digits - 1)
MantHi == Pow10(Digits)

Abs(x) == IF x < 0 THEN -x ELSE x
Sgn(x) == IF x < 0 THEN -1 ELSE IF x > 0 THEN 1 ELSE 0

Fin(m, e) == [c |-> "fin", m |-> m, e |-> e]
Zero == Fin(0, 0)
Inf(s) == [c |-> "inf", m |-> s, e |-> 0]
PosInf == Inf(1)
NaN == [c |-> "nan", m |-> 0, e |-> 0]

IsFin(a) == a.c = "fin"
IsInf(a) == a.c = "inf"
IsNaN(a) == a.c = "nan"

RECURSIVE NumDigits(_)
NumDigits(a) == IF a < 10 THEN 1 ELSE 1 + NumDigits(a \div 10)

\* a >= 0, d > 0: a / d rounded to the nearest integer, halves upward.
RoundDiv(a, d) == (a + d \div 2) \div d

\* Where the exact value m * 10^e, m # 0, lies in binary64's range: "inf" above
\* the largest double, "zero" at or below half the smallest positive double.
\* m is compared with as many leading digits of the limit as m has.
Range(m, e) ==
    LET a == Abs(m)
        nd == NumDigits(a)
        dec == e + nd - 1
        top == MaxMant \div Pow10(NumDigits(MaxMant) - nd)
        bottom == IF nd > NumDigits(MinMant) THEN a
                  ELSE MinMant \div Pow10(NumDigits(MinMant) - nd)
    IN  IF dec > MaxExp10 \/ (dec = MaxExp10 /\ a > top) THEN "inf"
        ELSE IF dec < MinExp10 \/ (dec = MinExp10 /\ a <= bottom) THEN "zero"
        ELSE "fin"

\* The largest mantissa of Digits digits at the top of the range, and the
\* smallest at its bottom.
TopMant == MaxMant \div Pow10(NumDigits(MaxMant) - Digits)
BottomMant == MinMant \div Pow10(NumDigits(MinMant) - Digits) + 1

\* A rounded mantissa and exponent of a value in range: a value that Digits
\* digits would round out of the range (1.7975e308, 2.4704e-324) is given the
\* last mantissa in range, so that every float is a value in range.
Kept(s, q, ex) ==
    IF ex + Digits - 1 = MaxExp10 /\ q > TopMant THEN Fin(s * TopMant, ex)
    ELSE IF ex + Digits - 1 = MinExp10 /\ q < BottomMant THEN Fin(s * BottomMant, ex)
    ELSE Fin(s * q, ex)

\* The exact value m * 10^e, m # 0 and in range, rounded to Digits digits.
Round(m, e) ==
    LET a == Abs(m)
        nd == NumDigits(a)
    IN  IF nd > Digits
        THEN LET sh == nd - Digits
                 q == RoundDiv(a, Pow10(sh))
             IN  IF q = MantHi THEN Kept(Sgn(m), MantLo, e + sh + 1)
                 ELSE Kept(Sgn(m), q, e + sh)
        ELSE Kept(Sgn(m), a * Pow10(Digits - nd), e - (Digits - nd))

\* The class of an exact value, then its float.
Classed(cls, m, e) ==
    IF cls = "inf" THEN Inf(Sgn(m))
    ELSE IF cls = "zero" THEN Zero
    ELSE Round(m, e)

\* The exact value m * 10^e as a float: out of range an infinity or zero, in
\* range rounded to Digits digits.
Norm(m, e) ==
    IF m = 0 THEN Zero ELSE Classed(Range(m, e), m, e)

IntToFloat(i) == Norm(i, 0)

Neg(a) == IF IsNaN(a) THEN NaN ELSE [a EXCEPT !.m = -a.m]

Mul(a, b) ==
    IF IsNaN(a) \/ IsNaN(b) THEN NaN
    ELSE IF IsInf(a) \/ IsInf(b)
         THEN IF a.m = 0 \/ b.m = 0 THEN NaN ELSE Inf(Sgn(a.m) * Sgn(b.m))
         ELSE Norm(a.m * b.m, a.e + b.e)

Add(a, b) ==
    IF IsNaN(a) \/ IsNaN(b) THEN NaN
    ELSE IF IsInf(a) THEN (IF IsInf(b) /\ b.m # a.m THEN NaN ELSE a)
    ELSE IF IsInf(b) THEN b
    ELSE IF a.m = 0 THEN b
    ELSE IF b.m = 0 THEN a
    ELSE LET hi == IF a.e >= b.e THEN a ELSE b
             lo == IF a.e >= b.e THEN b ELSE a
             d == hi.e - lo.e
         IN  IF d > Digits + 1 THEN hi
             ELSE Norm(hi.m * Pow10(d) + lo.m, lo.e)

Sub(a, b) == Add(a, Neg(b))

\* Float division as NumPy does it: x / 0 is an infinity or NaN, never an exception.
Div(a, b) ==
    IF IsNaN(a) \/ IsNaN(b) THEN NaN
    ELSE IF IsInf(a) THEN (IF IsInf(b) THEN NaN
                           ELSE Inf(a.m * (IF b.m < 0 THEN -1 ELSE 1)))
    ELSE IF IsInf(b) THEN Zero
    ELSE IF b.m = 0 THEN (IF a.m = 0 THEN NaN ELSE Inf(Sgn(a.m)))
    ELSE IF a.m = 0 THEN Zero
    ELSE Norm(Sgn(a.m) * Sgn(b.m) * ((Abs(a.m) * Pow10(Digits + 1)) \div Abs(b.m)),
              a.e - b.e - (Digits + 1))

FinLt(a, b) ==
    IF Sgn(a.m) # Sgn(b.m) THEN Sgn(a.m) < Sgn(b.m)
    ELSE IF a.m > 0 THEN a.e < b.e \/ (a.e = b.e /\ a.m < b.m)
    ELSE IF a.m < 0 THEN a.e > b.e \/ (a.e = b.e /\ a.m < b.m)
    ELSE FALSE

\* a < b; false when either is NaN.
Lt(a, b) ==
    IF IsNaN(a) \/ IsNaN(b) THEN FALSE
    ELSE IF IsInf(a) THEN a.m < 0 /\ ~(IsInf(b) /\ b.m < 0)
    ELSE IF IsInf(b) THEN b.m > 0
    ELSE FinLt(a, b)

Le(a, b) == ~IsNaN(a) /\ ~IsNaN(b) /\ ~Lt(b, a)

\* np.maximum on two scalars: NaN propagates.
Maximum(a, b) ==
    IF IsNaN(a) \/ IsNaN(b) THEN NaN
    ELSE IF Lt(a, b) THEN b ELSE a

RECURSIVE ISqrtIter(_, _)
ISqrtIter(x, g) ==
    LET g2 == (g + x \div g) \div 2
    IN  IF g2 >= g THEN g ELSE ISqrtIter(x, g2)

\* x >= 0: the square root of x rounded to the nearest integer.
RoundSqrt(x) ==
    IF x = 0 THEN 0
    ELSE LET s == ISqrtIter(x, 46341)
         IN  IF x - s * s > s THEN s + 1 ELSE s

\* np.sqrt on a scalar: the root of a negative number is NaN (with a warning).
NpSqrt(a) ==
    IF IsNaN(a) THEN NaN
    ELSE IF a.m < 0 THEN NaN
    ELSE IF IsInf(a) THEN PosInf
    ELSE IF a.m = 0 THEN Zero
    ELSE IF a.e % 2 = 0
         THEN Norm(RoundSqrt(a.m * Pow10(Digits)), (a.e - Digits) \div 2)
         ELSE Norm(RoundSqrt(a.m * Pow10(Digits + 1)), (a.e - Digits - 1) \div 2)

\* ln(10) = 2.30258509 in two parts, 2.3025 in units of 1e-4 and 0.00008509
\* in units of 1e-8, and the unit of the fixed point the exponential is
\* summed in.
Ln10Hi == 23025
Ln10Lo == 8509
ExpUnit == 100000

RECURSIVE ExpSeries(_, _, _)
\* sum over i >= k of r^i / i!, in units of 1/ExpUnit; r is in the same units
\* and term is r^k / k!.  term * r is taken in two parts to stay in range.
ExpSeries(r, term, k) ==
    IF term = 0 THEN 0
    ELSE term + ExpSeries(r, RoundDiv(term * (r \div 100) + RoundDiv(term * (r % 100), 100),
                                      1000 * (k + 1)),
                          k + 1)

\* np.exp on a scalar: e^x = 10^k * e^(x - k ln 10) with 0 <= x - k ln 10 < ln 10.
\* x is exact in units of 1e-4 from 1e-4 upward, and is taken in units of 1e-8
\* below; x - k ln 10 is formed in units of 1e-8.
NpExp(a) ==
    IF IsNaN(a) THEN NaN
    ELSE IF IsInf(a) THEN (IF a.m > 0 THEN PosInf ELSE Zero)
    ELSE IF a.m = 0 THEN IntToFloat(1)
    ELSE IF a.e + Digits - 1 >= 3 THEN (IF a.m > 0 THEN PosInf ELSE Zero)
    ELSE LET coarse == a.e >= -4
             x4 == a.m * Pow10(a.e + 4)
             x8 == IF a.e >= -8 THEN a.m * Pow10(a.e + 8)
                   ELSE IF -8 - a.e > Digits THEN 0
                   ELSE Sgn(a.m) * RoundDiv(Abs(a.m), Pow10(-8 - a.e))
             ln10 == Ln10Hi * 10000 + Ln10Lo
             Rest(k) == IF coarse THEN (x4 - k * Ln10Hi) * 10000 - k * Ln10Lo
                        ELSE x8 - k * ln10
             k0 == IF coarse THEN x4 \div (Ln10Hi + 1)
                   ELSE IF x8 < 0 THEN -1 ELSE 0
             k == IF Rest(k0) < 0 THEN k0 - 1
                  ELSE IF Rest(k0) >= ln10 THEN k0 + 1
                  ELSE k0
         IN  Norm(ExpSeries(RoundDiv(Rest(k), 1000), ExpUnit, 0), k - 5)

(***************************************************************************)
(* Python values: a float is one of the records above; the others are      *)
(* tagged the same way, so that a name of the kernel can hold any of them. *)
(***************************************************************************)
Arr(v) == [c |-> "arr", v |-> v]
PyInt(i) == [c |-> "int", i |-> i]
Err(kind) == [c |-> "err", kind |-> kind]
Undefined == [c |-> "undef"]

IsArr(x) == x.c = "arr"
IsErr(x) == x.c = "err"

\* A decimal literal m * 10^e, e.g. 0.03 is Lit(3, -2).
Lit(m, e) == Norm(m, e)
Half == Lit(5, -1)

(***************************************************************************)
(* The state: the inputs of a run, where it stands, and the kernel's names. *)
(***************************************************************************)
VARIABLES
    arg,                        \* the inputs of this run
    pc,                         \* the statement to run next
    exc,                        \* the exception raised, or "none"
    n, r, t,                    \* names of the kernel ...
    prices,
    stockPricesAtExpiry,
    strikePrice,
    optionValuesAtExpiry,
    averageForwardOptionValue,
    presentOptionValue,
    names,                      \* ... and what its modules' and functions' names are bound to
    sliders,                    \* the values of the three sliders interact displays
    rng,                        \* the random source: its seed and how many draws it has given
    passed,                     \* passed[i]: how many sampler calls were given draw i
    calls,                      \* the sampler calls of the last cell or callback, with
                                \* their arguments and what they returned
    last,                       \* the last cell or callback run
    printed,                    \* what the last cell or statement printed
    cellsRun, slides            \* how many cells and how many slider callbacks have run

\* What the statements of the option cell leave alone.
notebook == <<names, sliders, passed, calls, last, printed, cellsRun, slides>>

vars == <<arg, pc, exc, n, r, t, prices, stockPricesAtExpiry, strikePrice,
          optionValuesAtExpiry, averageForwardOptionValue, presentOptionValue,
          names, sliders, rng, passed, calls, last, printed, cellsRun, slides>>

(***************************************************************************)
(* The pipeline's functions.                                               *)
(***************************************************************************)

\* Variants of bsm, each off by one plausible slip, used to see that a claim's
\* formula tells them from bsm: the drift without its 0.5; the first-order
\* (Euler) step in place of the exponential; the noise not scaled by sigma; the
\* kernel's t read in place of the parameter.
bsm_NoHalf(s_0, rr, sigma, tt, z) ==
    LET drift == Mul(Sub(rr, Mul(sigma, sigma)), tt)
        vol == Mul(sigma, NpSqrt(tt))
    IN  Arr([i \in 1..Len(z.v) |-> Mul(s_0, NpExp(Add(drift, Mul(vol, z.v[i]))))])

bsm_Euler(s_0, rr, sigma, tt, z) ==
    LET drift == Mul(Sub(rr, Mul(Half, Mul(sigma, sigma))), tt)
        vol == Mul(sigma, NpSqrt(tt))
    IN  Arr([i \in 1..Len(z.v) |->
              Mul(s_0, Add(IntToFloat(1), Add(drift, Mul(vol, z.v[i]))))])

bsm_NoSigma(s_0, rr, sigma, tt, z) ==
    LET drift == Mul(Sub(rr, Mul(Half, Mul(sigma, sigma))), tt)
        vol == NpSqrt(tt)
    IN  Arr([i \in 1..Len(z.v) |-> Mul(s_0, NpExp(Add(drift, Mul(vol, z.v[i]))))])

RECURSIVE SumTo(_, _)
SumTo(v, k) == IF k = 0 THEN Zero ELSE Add(SumTo(v, k - 1), v[k])

\* One more variant of bsm: the noise accumulated along the batch (np.cumsum(z)),
\* as a simulated path would have it, in place of one draw per element.
bsm_CumSum(s_0, rr, sigma, tt, z) ==
    LET drift == Mul(Sub(rr, Mul(Half, Mul(sigma, sigma))), tt)
        vol == Mul(sigma, NpSqrt(tt))
    IN  Arr([i \in 1..Len(z.v) |->
              Mul(s_0, NpExp(Add(drift, Mul(vol, SumTo(z.v, i)))))])

bsm_GlobalT(s_0, rr, sigma, tt, z) ==
    IF t = Undefined THEN Err("NameError")
    ELSE LET drift == Mul(Sub(rr, Mul(Half, Mul(sigma, sigma))), t)
             vol == Mul(sigma, NpSqrt(t))
         IN  Arr([i \in 1..Len(z.v) |-> Mul(s_0, NpExp(Add(drift, Mul(vol, z.v[i]))))])

\* sigma**2 on a Python float: a finite operand whose square overflows raises
\* OverflowError, where the product of two floats would be an infinity.
PySquare(a) ==
    IF IsFin(a) /\ IsInf(Mul(a, a)) THEN Err("OverflowError") ELSE Mul(a, a)

\* def bsm(s_0, r, sigma, t, z):
\*     return s_0 * np.exp((r - 0.5 * sigma**2) * t + sigma * np.sqrt(t) * z)
\* z is an array; the scalars broadcast over it.  sigma**2 is taken first and
\* can raise; NumPy raises nothing after it: an invalid operand gives NaN,
\* overflow an infinity, underflow zero.
bsm(s_0, rr, sigma, tt, z) ==
    LET Squared(sq) ==
            IF IsErr(sq) THEN sq
            ELSE LET drift == Mul(Sub(rr, Mul(Half, sq)), tt)
                     vol == Mul(sigma, NpSqrt(tt))
                 IN  Arr([i \in 1..Len(z.v) |->
                           Mul(s_0, NpExp(Add(drift, Mul(vol, z.v[i]))))])
    IN  Squared(PySquare(sigma))

\* Variants of the payoff: the difference without its floor at 0; the put's payoff.
OptionValuesAtExpiry_NoFloor(stockPrices, strike) ==
    Arr([i \in 1..Len(stockPrices.v) |-> Sub(stockPrices.v[i], strike)])

OptionValuesAtExpiry_Put(stockPrices, strike) ==
    Arr([i \in 1..Len(stockPrices.v) |-> Maximum(Sub(strike, stockPrices.v[i]), Zero)])

\* np.maximum(stockPricesAtExpiry - strikePrice, 0)
OptionValuesAtExpiry(stockPrices, strike) ==
    Arr([i \in 1..Len(stockPrices.v) |-> Maximum(Sub(stockPrices.v[i], strike), Zero)])

RECURSIVE SumFrom(_, _, _)
SumFrom(v, i, acc) ==
    IF i > Len(v) THEN acc ELSE SumFrom(v, i + 1, Add(acc, v[i]))

\* The builtin sum over an array: 0 + v[1] + v[2] + ..., left to right, from
\* the int 0, which is what the sum of an empty array is.
PySum(a) == IF Len(a.v) = 0 THEN PyInt(0) ELSE SumFrom(a.v, 1, Zero)

\* The / of a Python that divides two integers exactly (from __future__
\* import division, Python 3).
PyDiv_True(a, b) ==
    LET x == IF a.c = "int" THEN IntToFloat(a.i) ELSE a
        y == IF b.c = "int" THEN IntToFloat(b.i) ELSE b
    IN  IF IsFin(y) /\ y.m = 0 THEN Err("ZeroDivisionError") ELSE Div(x, y)

\* x/y as this notebook's Python 2 evaluates it: of two integers the floor of
\* the quotient, an integer; of a float and a number the quotient, a float;
\* ZeroDivisionError for a divisor of zero.
PyDiv(a, b) ==
    IF a.c = "int" /\ b.c = "int"
    THEN IF b.i = 0 THEN Err("ZeroDivisionError")
         ELSE IF b.i > 0 THEN PyInt(a.i \div b.i)
         ELSE PyInt((0 - a.i) \div (0 - b.i))
    ELSE LET x == IF a.c = "int" THEN IntToFloat(a.i) ELSE a
             y == IF b.c = "int" THEN IntToFloat(b.i) ELSE b
         IN  IF IsFin(y) /\ y.m = 0 THEN Err("ZeroDivisionError") ELSE Div(x, y)

\* x*y: of two integers an integer, of a float and a number a float; an
\* operand that raised has ended the statement.
PyMul(a, b) ==
    IF IsErr(a) THEN a
    ELSE IF IsErr(b) THEN b
    ELSE IF a.c = "int" /\ b.c = "int" THEN PyInt(a.i * b.i)
    ELSE Mul(IF a.c = "int" THEN IntToFloat(a.i) ELSE a,
             IF b.c = "int" THEN IntToFloat(b.i) ELSE b)

\* A variant of the average: the divisor n - 1.
AverageForwardOptionValue_OffByOne(optionValues, nn) ==
    IF Len(optionValues.v) = 0
    THEN IF nn = 0 THEN Err("ZeroDivisionError") ELSE PyInt(0)
    ELSE Div(PySum(optionValues), IntToFloat(nn - 1))

\* sum(optionValuesAtExpiry)/n with the kernel's n, a Python int.  The sum of
\* an empty array is the int 0, and int / int is Python 2's integer division:
\* 0/0 raises ZeroDivisionError, 0/n is the int 0.  The sum of the elements
\* is a NumPy float and divides as NumPy does: by 0 it is an infinity or NaN.
AverageForwardOptionValue(optionValues, nn) ==
    LET Summed(total) == IF total.c = "int" THEN PyDiv(total, PyInt(nn))
                         ELSE Div(total, IntToFloat(nn))
    IN  Summed(PySum(optionValues))

\* math.exp: as np.exp, but a finite argument whose result overflows raises.
MathExp(a) ==
    IF IsFin(a) /\ IsInf(NpExp(a)) THEN Err("OverflowError") ELSE NpExp(a)

\* A variant of the discounting: the cell's literals 0.03 and 3.0/12 written out
\* again in place of the names r and t the sampler was called with.
PresentOptionValue_Literals(average, rr, tt) ==
    LET d == MathExp(Mul(Neg(Lit(3, -2)), Lit(25, -2)))
    IN  IF IsErr(d) THEN d ELSE PyMul(average, d)

\* averageForwardOptionValue * math.exp(-r * t); the average is a float, or
\* the int 0 of an empty sum.
PresentOptionValue(average, rr, tt) ==
    LET d == MathExp(Mul(Neg(rr), tt))
    IN  IF IsErr(d) THEN d ELSE PyMul(average, d)

\* math.sqrt: as np.sqrt, but the root of a negative number raises.
MathSqrt(a) ==
    IF ~IsNaN(a) /\ a.m < 0 THEN Err("ValueError") ELSE NpSqrt(a)

\* The first cell's bsm, which the second cell's definition replaces:
\* def bsm(s_0, r, sigma, t, z):
\*     return s_0 * math.exp((r - 0.5 * sigma**2) * t + sigma * math.sqrt(t) * z)
\* z is a float, or an array: math.exp takes an array of exactly one element
\* for its element and raises TypeError on any other array.  The operands are
\* evaluated left to right: sigma**2, then math.sqrt(t), then math.exp, and
\* the first that raises ends the call.
bsm_scalar(s_0, rr, sigma, tt, z) ==
    LET Sized(e) == IF IsErr(e) THEN e ELSE Mul(s_0, e)
        Rooted(sq, root) ==
            IF IsErr(sq) THEN sq
            ELSE IF IsErr(root) THEN root
            ELSE IF IsArr(z) /\ Len(z.v) # 1 THEN Err("TypeError")
            ELSE LET zz == IF IsArr(z) THEN z.v[1] ELSE z
                     drift == Mul(Sub(rr, Mul(Half, sq)), tt)
                 IN  Sized(MathExp(Add(drift, Mul(Mul(sigma, root), zz))))
    IN  Rooted(PySquare(sigma), MathSqrt(tt))

\* A call bsm(...) with the definition the name is bound to.  The vectorized
\* definition given a float returns a float.
CallBsm(def, s_0, rr, sigma, tt, z) ==
    IF def = "scalar" THEN bsm_scalar(s_0, rr, sigma, tt, z)
    ELSE IF IsArr(z) THEN bsm(s_0, rr, sigma, tt, z)
    ELSE LET Element(res) == IF IsErr(res) THEN res ELSE res.v[1]
         IN  Element(bsm(s_0, rr, sigma, tt, Arr(<<z>>)))

\* def sqrtRatio(x, y):
\*     return math.sqrt(x/y)
\* math.sqrt takes an integer for the float of its value.
sqrtRatio(x, y) ==
    LET Rooted(q) == IF IsErr(q) THEN q
                     ELSE MathSqrt(IF q.c = "int" THEN IntToFloat(q.i) ELSE q)
    IN  Rooted(PyDiv(x, y))

(***************************************************************************)
(* The pricing pipeline run on arbitrary inputs: the statements of the     *)
(* histogram cell's call and of the option cell, with the cells' literals  *)
(* (100, 0.03, 0.4, 3.0/12, 105 and the draws np.random.standard_normal(n) *)
(* returns) replaced by the inputs arg.                                    *)
(***************************************************************************)
MaxN == 2

\* The parameters every cell calls bsm with: bsm(100, 0.03, 0.4, 3.0/12, ...).
Scenario1 == [s_0 |-> Lit(100, 0), r |-> Lit(3, -2), sigma |-> Lit(4, -1), t |-> Lit(25, -2)]

\* The names of the kernel that hold a module or a function.
Names == {"math", "np", "bsm", "plt", "interact", "plot_histogram", "sqrtRatio"}

Spots == {Lit(100, 0), Lit(110, 0)}
Rates == {Lit(3, -2), Zero}
Vols == {Zero, Lit(4, -1), Lit(5, 0)}
Times == {Lit(25, -2), Lit(50, 0)}
BadSpots == {Zero, Lit(-100, 0)}
BadVols == {Lit(-4, -1)}
BadTimes == {Zero, Lit(-25, -2)}
Strikes == {Lit(105, 0), Lit(95, 0), Zero, Lit(-5, 0)}
Draws == {Lit(-4, 0), Zero, Lit(1, 0)}

Params ==
    [s_0 : Spots, r : Rates, sigma : Vols, t : Times]
      \cup [s_0 : BadSpots, r : {Lit(3, -2)}, sigma : {Lit(4, -1)}, t : {Lit(25, -2)}]
      \cup [s_0 : {Lit(100, 0)}, r : {Lit(3, -2)}, sigma : BadVols, t : {Lit(25, -2)}]
      \cup [s_0 : {Lit(100, 0)}, r : {Lit(3, -2)}, sigma : {Lit(4, -1)}, t : BadTimes]

Batches == UNION {[1..k -> Draws] : k \in 0..MaxN}

\* The kernel the pipeline's statements are run in: the modules imported and
\* bsm defined as the cells before them leave it (import math, import numpy
\* as np, the second def bsm, import matplotlib.pyplot as plt), and n assigned
\* (n = 100000, here the number of draws of the input).
PipelineInit ==
    /\ arg \in [p : Params, k : Strikes, z : Batches]
    /\ pc = "prices"
    /\ exc = "none"
    /\ n = PyInt(Len(arg.z)) /\ r = Undefined /\ t = Undefined
    /\ prices = Undefined
    /\ stockPricesAtExpiry = Undefined
    /\ strikePrice = Undefined
    /\ optionValuesAtExpiry = Undefined
    /\ averageForwardOptionValue = Undefined
    /\ presentOptionValue = Undefined
    /\ names = [x \in Names |->
                  IF x \in {"math", "np", "plt"} THEN "module"
                  ELSE IF x = "bsm" THEN "vectorized"
                  ELSE "unbound"]
    /\ sliders = Undefined
    /\ rng = [seed |-> 0, pos |-> 0]
    /\ passed = <<>>
    /\ calls = <<>>
    /\ last = "none"
    /\ printed = <<>>
    /\ cellsRun = 0 /\ slides = 0

\* prices = bsm(100, 0.03, 0.4, 3.0/12, np.random.standard_normal(n))
\* The names bsm, np and n are looked up, then the draws are taken (they are
\* an argument), then bsm is entered.  A call that raises assigns nothing.
CallPrices ==
    /\ pc = "prices"
    /\ IF names["bsm"] = "unbound" \/ names["np"] = "unbound" \/ n.c = "undef"
       THEN exc' = "NameError" /\ UNCHANGED <<prices, rng>>
       ELSE \E res \in {CallBsm(names["bsm"], arg.p.s_0, arg.p.r, arg.p.sigma, arg.p.t,
                                 Arr(arg.z))} :
              /\ rng' = [rng EXCEPT !.pos = @ + Len(arg.z)]
              /\ IF IsErr(res) THEN exc' = res.kind /\ UNCHANGED prices
                 ELSE exc' = exc /\ prices' = res
    /\ pc' = "assign"
    /\ UNCHANGED <<arg, n, r, t, stockPricesAtExpiry, strikePrice,
                   optionValuesAtExpiry, averageForwardOptionValue, presentOptionValue>>
    /\ UNCHANGED notebook

\* n = 100000; r = 0.03; t = 3.0/12, the first statements of the option cell:
\* an exception the cell before it ended with is no longer the kernel's.
AssignGlobals ==
    /\ pc = "assign"
    /\ exc' = "none"
    /\ n' = PyInt(Len(arg.z))
    /\ r' = arg.p.r
    /\ t' = arg.p.t
    /\ pc' = "sample"
    /\ UNCHANGED <<arg, prices, stockPricesAtExpiry, strikePrice,
                   optionValuesAtExpiry, averageForwardOptionValue, presentOptionValue>>
    /\ UNCHANGED <<rng, notebook>>

\* stockPricesAtExpiry = bsm(100, r, 0.4, t, np.random.standard_normal(n))
Sample ==
    /\ pc = "sample"
    /\ IF names["bsm"] = "unbound" \/ names["np"] = "unbound"
       THEN pc' = "raised" /\ exc' = "NameError" /\ UNCHANGED <<stockPricesAtExpiry, rng>>
       ELSE \E res \in {CallBsm(names["bsm"], arg.p.s_0, r, arg.p.sigma, t, Arr(arg.z))} :
              /\ rng' = [rng EXCEPT !.pos = @ + Len(arg.z)]
              /\ IF IsErr(res)
                 THEN pc' = "raised" /\ exc' = res.kind /\ UNCHANGED stockPricesAtExpiry
                 ELSE pc' = "payoff" /\ exc' = exc /\ stockPricesAtExpiry' = res
    /\ UNCHANGED <<arg, n, r, t, prices, strikePrice,
                   optionValuesAtExpiry, averageForwardOptionValue, presentOptionValue>>
    /\ UNCHANGED notebook

\* strikePrice = 105
\* optionValuesAtExpiry = np.maximum(stockPricesAtExpiry - strikePrice, 0)
Payoff ==
    /\ pc = "payoff"
    /\ strikePrice' = arg.k
    /\ \E res \in {IF names["np"] = "unbound" THEN Err("NameError")
                    ELSE OptionValuesAtExpiry(stockPricesAtExpiry, arg.k)} :
           IF IsErr(res)
           THEN pc' = "raised" /\ exc' = res.kind /\ UNCHANGED optionValuesAtExpiry
           ELSE pc' = "average" /\ exc' = exc /\ optionValuesAtExpiry' = res
    /\ UNCHANGED <<arg, n, r, t, prices, stockPricesAtExpiry,
                   averageForwardOptionValue, presentOptionValue>>
    /\ UNCHANGED <<rng, notebook>>

\* averageForwardOptionValue = sum(optionValuesAtExpiry)/n
Average ==
    /\ pc = "average"
    /\ \E res \in {AverageForwardOptionValue(optionValuesAtExpiry, n.i)} :
           IF IsErr(res)
           THEN pc' = "raised" /\ exc' = res.kind /\ UNCHANGED averageForwardOptionValue
           ELSE pc' = "present" /\ exc' = exc /\ averageForwardOptionValue' = res
    /\ UNCHANGED <<arg, n, r, t, prices, stockPricesAtExpiry, strikePrice,
                   optionValuesAtExpiry, presentOptionValue>>
    /\ UNCHANGED <<rng, notebook>>

\* presentOptionValue = averageForwardOptionValue * math.exp(-r * t)
Present ==
    /\ pc = "present"
    /\ \E res \in {IF names["math"] = "unbound" THEN Err("NameError")
                    ELSE PresentOptionValue(averageForwardOptionValue, r, t)} :
           IF IsErr(res)
           THEN pc' = "raised" /\ exc' = res.kind /\ UNCHANGED presentOptionValue
           ELSE pc' = "done" /\ exc' = exc /\ presentOptionValue' = res
    /\ UNCHANGED <<arg, n, r, t, prices, stockPricesAtExpiry, strikePrice,
                   optionValuesAtExpiry, averageForwardOptionValue>>
    /\ UNCHANGED <<rng, notebook>>

PipelineNext ==
    \/ CallPrices
    \/ AssignGlobals
    \/ Sample
    \/ Payoff
    \/ Average
    \/ Present

PipelineSpec == PipelineInit /\ [][PipelineNext]_vars

(***************************************************************************)
(* The notebook: a kernel that starts with nothing bound, cells that run   *)
(* one at a time, each to its end or to its first exception, and the       *)
(* callbacks of the sliders, which run between cells.                      *)
(***************************************************************************)

\* The batch sizes of the cells, scaled down: the model's batch for the code's
\* n = 10, for plot_histogram's n = 1000, for n = 100000 (the histogram cell and
\* the option cell) and for n = 1000000.  They keep the code's order and are all
\* different from 1, the one length of array math.exp accepts.
N10 == 2
N1000 == 3
N100000 == 4
N1000000 == 5

\* How many cells and callbacks a session of cells run in any order has, and how
\* many slider callbacks a top-to-bottom run has.
MaxEvents == 5
MaxSlides == 3

\* The random source.  NumPy seeds its generator from the system once, at
\* import; from then on draw i of the stream is a function of the seed.
Seeds == {0, 1, 2}
DrawCycle == <<Lit(1, 0), Zero, Lit(-4, 0)>>
Stream(seed, i) == DrawCycle[((seed + i) % Len(DrawCycle)) + 1]

\* A variant of the draw: the source seeded anew before every batch.
StandardNormal_Seeded(g, k) ==
    [batch |-> [i \in 1..k |-> Stream(g.seed, i)],
     from |-> 1, to |-> k,
     rng |-> [g EXCEPT !.pos = k]]

\* np.random.standard_normal(k): the next k draws of the stream.
StandardNormal(g, k) ==
    [batch |-> [i \in 1..k |-> Stream(g.seed, g.pos + i)],
     from |-> g.pos + 1, to |-> g.pos + k,
     rng |-> [g EXCEPT !.pos = @ + k]]

\* A variant of binding: a name once bound keeps its first binding.
Bind_KeepFirst(ns, name, value) ==
    IF ns[name] = "unbound" THEN [ns EXCEPT ![name] = value] ELSE ns

\* import ... as name, def name(...): the name is bound, or bound anew.
Bind(ns, name, value) == [ns EXCEPT ![name] = value]

\* A variant of assignment in a function body: the name declared global.
AssignLocal_Global(kernelValue, value) == value

\* n = ..., prices = ... in the body of plot_histogram: the assignment makes the
\* name local to the call, and the kernel's name keeps the value it has.
AssignLocal(kernelValue, value) == kernelValue

\* bsm(s_0, r, sigma, t, np.random.standard_normal(k)) at a call site: the name
\* bsm is looked up, then the argument is evaluated (np is looked up and the
\* draws are taken), then the function is entered.
SampleCall(ns, g, site, s_0, rr, sigma, tt, k) ==
    IF ns["bsm"] = "unbound" \/ ns["np"] = "unbound"
    THEN [exc |-> "NameError", rng |-> g, calls |-> <<>>, value |-> Undefined]
    ELSE LET Called(d, res) ==
                 [exc |-> IF IsErr(res) THEN res.kind ELSE "none",
                  rng |-> d.rng,
                  calls |-> <<[site |-> site, def |-> ns["bsm"], array |-> TRUE,
                               p |-> [s_0 |-> s_0, r |-> rr, sigma |-> sigma, t |-> tt],
                               from |-> d.from, to |-> d.to, value |-> res]>>,
                  value |-> res]
             Drawn(d) == Called(d, CallBsm(ns["bsm"], s_0, rr, sigma, tt, Arr(d.batch)))
         IN  Drawn(StandardNormal(g, k))

\* The draws of a call, as the source gave them.
BatchOf(call) == [i \in 1..(call.to - call.from + 1) |-> Stream(rng.seed, call.from + i - 1)]

\* passed, with the draws of these calls counted.
Pass(counts, cs) ==
    LET top == IF cs = <<>> \/ cs[1].to <= Len(counts) THEN Len(counts) ELSE cs[1].to
    IN  [i \in 1..top |->
          (IF i <= Len(counts) THEN counts[i] ELSE 0)
            + (IF cs # <<>> /\ cs[1].from <= i /\ i <= cs[1].to THEN 1 ELSE 0)]

\* def plot_histogram(r, sigma, t):
\*     n = 1000
\*     prices = bsm(100, r, sigma, t, np.random.standard_normal(n))
\*     plt.figure(figsize=(7,4)) ...
\* run in kernel state ns, g with the kernel's n and prices kn, kprices: what
\* the kernel's n and prices are afterwards, the source, the call, the exception.
plot_histogram(ns, g, kn, kprices, rr, sigma, tt) ==
    LET Body(s) ==
            [n |-> AssignLocal(kn, PyInt(N1000)),
             prices |-> IF s.exc = "none" THEN AssignLocal(kprices, s.value) ELSE kprices,
             rng |-> s.rng,
             calls |-> s.calls,
             exc |-> IF s.exc # "none" THEN s.exc
                     ELSE IF ns["plt"] = "unbound" THEN "NameError" ELSE "none"]
    IN  Body(SampleCall(ns, g, "plot_histogram", Lit(100, 0), rr, sigma, tt, N1000))

\* A variant of the sliders: every range starting at 0.0, as r's does.
Sliders_FromZero ==
    [r |-> [lo |-> 0, hi |-> 20], sigma |-> [lo |-> 0, hi |-> 100], t |-> [lo |-> 0, hi |-> 200]]

\* interact(plot_histogram, r=(0.0, 0.2, 0.01), sigma=(0.01, 1.0, 0.01), t=(0.01, 2, 0.01))
\* The ranges in steps of 0.01: a slider's value is k * 0.01 for lo <= k <= hi.
Sliders ==
    [r |-> [lo |-> 0, hi |-> 20], sigma |-> [lo |-> 1, hi |-> 100], t |-> [lo |-> 1, hi |-> 200]]

SliderValue(k) == Lit(k, -2)
SliderValues(s) == {SliderValue(k) : k \in Sliders[s].lo .. Sliders[s].hi}

\* Where a slider stands when displayed (the middle of its range), and where
\* the model moves it: there and to the two ends of its range.
SliderDefault(s) == (Sliders[s].lo + Sliders[s].hi) \div 2
SliderStops(s) == {Sliders[s].lo, SliderDefault(s), Sliders[s].hi}

NotebookInit ==
    /\ arg = Undefined
    /\ pc = "kernel"
    /\ exc = "none"
    /\ n = Undefined /\ r = Undefined /\ t = Undefined
    /\ prices = Undefined
    /\ stockPricesAtExpiry = Undefined
    /\ strikePrice = Undefined
    /\ optionValuesAtExpiry = Undefined
    /\ averageForwardOptionValue = Undefined
    /\ presentOptionValue = Undefined
    /\ names = [x \in Names |-> "unbound"]
    /\ sliders = Undefined
    /\ rng \in [seed : Seeds, pos : {0}]
    /\ passed = <<>>
    /\ calls = <<>>
    /\ last = "none"
    /\ printed = <<>>
    /\ cellsRun = 0 /\ slides = 0

\* import math; import numpy as np; def bsm(...) with math.exp;
\* print bsm(100, 0.03, 0.4, 3.0/12, np.random.standard_normal()); print 3/4*4
Cell1(enabled) ==
    /\ enabled
    /\ \E ns \in {Bind(Bind(Bind(names, "math", "module"), "np", "module"),
                        "bsm", "scalar")} :
       \E d \in {StandardNormal(rng, 1)} :
       \E res \in {CallBsm(ns["bsm"], Scenario1.s_0, Scenario1.r, Scenario1.sigma,
                            Scenario1.t, d.batch[1])} :
       \E cs \in {<<[site |-> "cell1", def |-> ns["bsm"], array |-> FALSE,
                      p |-> Scenario1, from |-> d.from, to |-> d.to,
                      value |-> res]>>} :
           /\ names' = ns
           /\ rng' = d.rng
           /\ calls' = cs
           /\ passed' = Pass(passed, cs)
           /\ exc' = IF IsErr(res) THEN res.kind ELSE "none"
           /\ printed' = IF IsErr(res) THEN <<>>
                         ELSE <<res, PyMul(PyDiv(PyInt(3), PyInt(4)), PyInt(4))>>
    /\ last' = "cell1"
    /\ cellsRun' = cellsRun + 1
    /\ UNCHANGED <<arg, pc, n, r, t, prices, stockPricesAtExpiry, strikePrice,
                   optionValuesAtExpiry, averageForwardOptionValue, presentOptionValue,
                   sliders, slides>>

\* def bsm(...) with np.exp; n = 10;
\* print bsm(100, 0.03, 0.4, 3.0/12, np.random.standard_normal(n))
Cell2(enabled) ==
    /\ enabled
    /\ \E ns \in {Bind(names, "bsm", "vectorized")} :
       \E s \in {SampleCall(ns, rng, "cell2", Lit(100, 0), Lit(3, -2), Lit(4, -1),
                            Lit(25, -2), N10)} :
           /\ names' = ns
           /\ n' = PyInt(N10)
           /\ rng' = s.rng
           /\ calls' = s.calls
           /\ passed' = Pass(passed, s.calls)
           /\ exc' = s.exc
           /\ printed' = IF s.exc = "none" THEN <<s.value>> ELSE <<>>
    /\ last' = "cell2"
    /\ cellsRun' = cellsRun + 1
    /\ UNCHANGED <<arg, pc, r, t, prices, stockPricesAtExpiry, strikePrice,
                   optionValuesAtExpiry, averageForwardOptionValue, presentOptionValue,
                   sliders, slides>>

\* import matplotlib.pyplot as plt; n = 100000;
\* prices = bsm(100, 0.03, 0.4, 3.0/12, np.random.standard_normal(n)); plt.figure ...
Cell3(enabled) ==
    /\ enabled
    /\ \E ns \in {Bind(names, "plt", "module")} :
       \E s \in {SampleCall(ns, rng, "cell3", Lit(100, 0), Lit(3, -2), Lit(4, -1),
                            Lit(25, -2), N100000)} :
           /\ names' = ns
           /\ n' = PyInt(N100000)
           /\ prices' = IF s.exc = "none" THEN s.value ELSE prices
           /\ rng' = s.rng
           /\ calls' = s.calls
           /\ passed' = Pass(passed, s.calls)
           /\ exc' = s.exc
    /\ printed' = <<>>
    /\ last' = "cell3"
    /\ cellsRun' = cellsRun + 1
    /\ UNCHANGED <<arg, pc, r, t, stockPricesAtExpiry, strikePrice,
                   optionValuesAtExpiry, averageForwardOptionValue, presentOptionValue,
                   sliders, slides>>

\* from ipywidgets import interact; def plot_histogram(r, sigma, t): ...;
\* interact(plot_histogram, r=..., sigma=..., t=...): the sliders are displayed
\* and plot_histogram is called once with the values they stand at.  An
\* exception of the callback is shown and ends the callback, not the cell.
Cell4(enabled) ==
    /\ enabled
    /\ \E ns \in {Bind(Bind(names, "interact", "module"), "plot_histogram", "function")} :
       \E w \in {[c |-> "widgets", r |-> SliderDefault("r"),
                   sigma |-> SliderDefault("sigma"), t |-> SliderDefault("t")]} :
       \E h \in {plot_histogram(ns, rng, n, prices, SliderValue(w.r),
                                 SliderValue(w.sigma), SliderValue(w.t))} :
           /\ names' = ns
           /\ sliders' = w
           /\ n' = h.n
           /\ prices' = h.prices
           /\ rng' = h.rng
           /\ calls' = h.calls
           /\ passed' = Pass(passed, h.calls)
           /\ exc' = h.exc
    /\ printed' = <<>>
    /\ last' = "cell4"
    /\ cellsRun' = cellsRun + 1
    /\ UNCHANGED <<arg, pc, r, t, stockPricesAtExpiry, strikePrice,
                   optionValuesAtExpiry, averageForwardOptionValue, presentOptionValue,
                   slides>>

\* The user moves one slider: plot_histogram is called with the three values
\* the sliders then stand at.
Slide(enabled) ==
    /\ enabled
    /\ sliders.c = "widgets"
    /\ \E s \in {"r", "sigma", "t"} : \E k \in SliderStops(s) :
         /\ k # sliders[s]
         /\ \E w \in {[sliders EXCEPT ![s] = k]} :
            \E h \in {plot_histogram(names, rng, n, prices, SliderValue(w.r),
                                      SliderValue(w.sigma), SliderValue(w.t))} :
                /\ sliders' = w
                /\ n' = h.n
                /\ prices' = h.prices
                /\ rng' = h.rng
                /\ calls' = h.calls
                /\ passed' = Pass(passed, h.calls)
                /\ exc' = h.exc
    /\ printed' = <<>>
    /\ last' = "slide"
    /\ slides' = slides + 1
    /\ UNCHANGED <<arg, pc, r, t, stockPricesAtExpiry, strikePrice,
                   optionValuesAtExpiry, averageForwardOptionValue, presentOptionValue,
                   names, cellsRun>>

\* n = 1000000; print sum(bsm(100, 0.03, 0.4, 3.0/12, np.random.standard_normal(n)))/n
Cell5(enabled) ==
    /\ enabled
    /\ \E s \in {SampleCall(names, rng, "cell5", Lit(100, 0), Lit(3, -2), Lit(4, -1),
                            Lit(25, -2), N1000000)} :
           /\ n' = PyInt(N1000000)
           /\ rng' = s.rng
           /\ calls' = s.calls
           /\ passed' = Pass(passed, s.calls)
           /\ exc' = s.exc
           /\ printed' = IF s.exc = "none"
                         THEN <<AverageForwardOptionValue(s.value, N1000000)>>
                         ELSE <<>>
    /\ last' = "cell5"
    /\ cellsRun' = cellsRun + 1
    /\ UNCHANGED <<arg, pc, r, t, prices, stockPricesAtExpiry, strikePrice,
                   optionValuesAtExpiry, averageForwardOptionValue, presentOptionValue,
                   names, sliders, slides>>

\* The option cell, with its closing print presentOptionValue: n = 100000; r = 0.03; t = 3.0/12;
\* stockPricesAtExpiry = bsm(100, r, 0.4, t, np.random.standard_normal(n));
\* strikePrice = 105; optionValuesAtExpiry = np.maximum(...);
\* averageForwardOptionValue = sum(optionValuesAtExpiry)/n;
\* presentOptionValue = averageForwardOptionValue * math.exp(-r * t)
\* A statement that raises ends the cell; the names assigned before it stay.
Cell6(enabled) ==
    /\ enabled
    /\ \E n1 \in {PyInt(N100000)}, r1 \in {Lit(3, -2)}, t1 \in {Lit(25, -2)},
          k \in {Lit(105, 0)} :
       \E s \in {SampleCall(names, rng, "cell6", Lit(100, 0), r1, Lit(4, -1), t1, n1.i)} :
       \E sampled \in {s.exc = "none"} :
       \E values \in {IF sampled THEN OptionValuesAtExpiry(s.value, k) ELSE Undefined} :
       \E average \in {IF sampled THEN AverageForwardOptionValue(values, n1.i)
                        ELSE Undefined} :
       \E averaged \in {sampled /\ ~IsErr(average)} :
       \E present \in {IF ~averaged THEN Undefined
                        ELSE IF names["math"] = "unbound" THEN Err("NameError")
                        ELSE PresentOptionValue(average, r1, t1)} :
       \E discounted \in {averaged /\ ~IsErr(present)} :
           /\ n' = n1 /\ r' = r1 /\ t' = t1
           /\ rng' = s.rng
           /\ calls' = s.calls
           /\ passed' = Pass(passed, s.calls)
           /\ stockPricesAtExpiry' = IF sampled THEN s.value ELSE stockPricesAtExpiry
           /\ strikePrice' = IF sampled THEN k ELSE strikePrice
           /\ optionValuesAtExpiry' = IF sampled THEN values ELSE optionValuesAtExpiry
           /\ averageForwardOptionValue' =
                IF averaged THEN average ELSE averageForwardOptionValue
           /\ presentOptionValue' = IF discounted THEN present ELSE presentOptionValue
           /\ exc' = IF ~sampled THEN s.exc
                     ELSE IF ~averaged THEN average.kind
                     ELSE IF ~discounted THEN present.kind
                     ELSE "none"
           /\ printed' = IF discounted THEN <<present>> ELSE <<>>
    /\ last' = "cell6"
    /\ cellsRun' = cellsRun + 1
    /\ UNCHANGED <<arg, pc, prices, names, sliders, slides>>

\* import math; def sqrtRatio(x, y): return math.sqrt(x/y); print sqrtRatio(9, 4)
Cell7(enabled) ==
    /\ enabled
    /\ \E ns \in {Bind(Bind(names, "math", "module"), "sqrtRatio", "function")} :
       \E res \in {sqrtRatio(PyInt(9), PyInt(4))} :
           /\ names' = ns
           /\ exc' = IF IsErr(res) THEN res.kind ELSE "none"
           /\ printed' = IF IsErr(res) THEN <<>> ELSE <<res>>
    /\ calls' = <<>>
    /\ last' = "cell7"
    /\ cellsRun' = cellsRun + 1
    /\ UNCHANGED <<arg, pc, n, r, t, prices, stockPricesAtExpiry, strikePrice,
                   optionValuesAtExpiry, averageForwardOptionValue, presentOptionValue,
                   sliders, rng, passed, slides>>

\* Cells run in any order, any number of times, and sliders moved in between.
Budget == cellsRun + slides < MaxEvents

Next ==
    \/ Cell1(Budget)
    \/ Cell2(Budget)
    \/ Cell3(Budget)
    \/ Cell4(Budget)
    \/ Cell5(Budget)
    \/ Cell6(Budget)
    \/ Cell7(Budget)
    \/ Slide(Budget)

Spec == NotebookInit /\ [][Next]_vars

\* The cells run once each from top to bottom, and sliders moved in between.
RunAllNext ==
    \/ Cell1(cellsRun = 0)
    \/ Cell2(cellsRun = 1)
    \/ Cell3(cellsRun = 2)
    \/ Cell4(cellsRun = 3)
    \/ Cell5(cellsRun = 4)
    \/ Cell6(cellsRun = 5)
    \/ Cell7(cellsRun = 6)
    \/ Slide(slides < MaxSlides)

RunAllSpec == NotebookInit /\ [][RunAllNext]_vars

(***************************************************************************)
(* The two statements that divide integers, run on arbitrary integers: the *)
(* first cell's print 3/4*4 and the last cell's print sqrtRatio(9, 4),     *)
(* with the literals replaced by the inputs arg.                           *)
(* They run in a kernel where math is imported and sqrtRatio defined.      *)
(***************************************************************************)
MaxInt == 12
MaxDen == 4

DivisionInit ==
    /\ arg \in [x : (0 - MaxDen)..MaxInt, y : (0 - MaxDen)..MaxDen, z : (0 - 1)..MaxDen]
    /\ pc = "division"
    /\ exc = "none"
    /\ n = Undefined /\ r = Undefined /\ t = Undefined
    /\ prices = Undefined
    /\ stockPricesAtExpiry = Undefined
    /\ strikePrice = Undefined
    /\ optionValuesAtExpiry = Undefined
    /\ averageForwardOptionValue = Undefined
    /\ presentOptionValue = Undefined
    /\ names = [x \in Names |->
                  IF x = "math" THEN "module"
                  ELSE IF x = "sqrtRatio" THEN "function"
                  ELSE "unbound"]
    /\ sliders = Undefined
    /\ rng = [seed |-> 0, pos |-> 0]
    /\ passed = <<>>
    /\ calls = <<>>
    /\ last = "none"
    /\ printed = <<>>
    /\ cellsRun = 0 /\ slides = 0

\* What the two statements leave alone.
kernel == <<arg, n, r, t, prices, stockPricesAtExpiry, strikePrice,
            optionValuesAtExpiry, averageForwardOptionValue, presentOptionValue,
            names, sliders, rng, passed, calls, last, cellsRun, slides>>

\* print 3/4*4
PrintProduct ==
    /\ pc = "division"
    /\ \E res \in {PyMul(PyDiv(PyInt(arg.x), PyInt(arg.y)), PyInt(arg.z))} :
           /\ exc' = IF IsErr(res) THEN res.kind ELSE "none"
           /\ printed' = IF IsErr(res) THEN <<>> ELSE <<res>>
    /\ pc' = "product"
    /\ UNCHANGED kernel

\* print sqrtRatio(9, 4)
PrintSqrtRatio ==
    /\ pc = "division"
    /\ \E res \in {IF names["sqrtRatio"] = "unbound" \/ names["math"] = "unbound"
                    THEN Err("NameError")
                    ELSE sqrtRatio(PyInt(arg.x), PyInt(arg.y))} :
           /\ exc' = IF IsErr(res) THEN res.kind ELSE "none"
           /\ printed' = IF IsErr(res) THEN <<>> ELSE <<res>>
    /\ pc' = "ratio"
    /\ UNCHANGED kernel

DivisionNext ==
    \/ PrintProduct
    \/ PrintSqrtRatio

DivisionSpec == DivisionInit /\ [][DivisionNext]_vars

(***************************************************************************)
(* What the claims speak of.                                               *)
(***************************************************************************)

\* MarketParameters as the data model has them: S0 > 0, T > 0, sigma >= 0.
Valid(p) == Lt(Zero, p.s_0) /\ Lt(Zero, p.t) /\ Le(Zero, p.sigma)

\* (r - 0.5*sigma^2)*T + sigma*sqrt(T)*Z_i
Exponent(p, zi) ==
    Add(Mul(Sub(p.r, Mul(Half, Mul(p.sigma, p.sigma))), p.t),
        Mul(Mul(p.sigma, NpSqrt(p.t)), zi))

\* |a - b| <= tol
Near(a, b, tol) == Le(Sub(a, b), tol) /\ Le(Sub(b, a), tol)

Scenario2 == [s_0 |-> Lit(100, 0), r |-> Lit(3, -2), sigma |-> Zero, t |-> Lit(25, -2)]

Sampled == IsArr(stockPricesAtExpiry)
Paid == IsArr(optionValuesAtExpiry)

\* C1: every element of the sampler's output is
\* S_i = S0 * exp((r - 0.5*sigma^2)*T + sigma*sqrt(T)*Z_i); for valid parameters a
\* draw Z_i = 0 yields S0 * exp((r - 0.5*sigma^2)*T), which in scenario 1
\* (S0=100, r=0.03, sigma=0.4, T=0.25) is 98.758 to the model's precision.
C1_TerminalPriceFormula ==
    Sampled =>
      /\ Len(stockPricesAtExpiry.v) = Len(arg.z)
      /\ \A i \in 1..Len(arg.z) :
           /\ stockPricesAtExpiry.v[i] = Mul(arg.p.s_0, NpExp(Exponent(arg.p, arg.z[i])))
           /\ (Valid(arg.p) /\ arg.z[i] = Zero) =>
                stockPricesAtExpiry.v[i] =
                  Mul(arg.p.s_0,
                      NpExp(Mul(Sub(arg.p.r, Mul(Half, Mul(arg.p.sigma, arg.p.sigma))),
                                arg.p.t)))
           /\ (arg.p = Scenario1 /\ arg.z[i] = Zero) =>
                Near(stockPricesAtExpiry.v[i], Lit(98758, -3), Lit(1, -2))

C1_Witness ==
    /\ Sampled
    /\ arg.p = Scenario1
    /\ \E i \in 1..Len(arg.z) :
         arg.z[i] = Zero /\ stockPricesAtExpiry.v[i] = Lit(9876, -2)
    /\ \E i \in 1..Len(arg.z) :
         arg.z[i] = Lit(1, 0) /\ stockPricesAtExpiry.v[i] = Lit(1206, -1)

\* C2 as stated: for valid parameters and n >= 1 the sampler returns exactly n
\* elements, every one strictly positive.
C2_AllStrictlyPositive ==
    (Sampled /\ Valid(arg.p) /\ n.i >= 1) =>
      /\ Len(stockPricesAtExpiry.v) = n.i
      /\ \A i \in 1..Len(stockPricesAtExpiry.v) : Lt(Zero, stockPricesAtExpiry.v[i])

\* C2 as amended: for valid parameters and n >= 1 the sampler returns exactly n
\* elements, none negative; with S0 >= 1, element i is strictly positive when its
\* exponent is at least -745; and it is exactly zero when the exponent is below
\* -745.2, where the exponential underflows.
C2_PositiveUnlessUnderflow ==
    (Sampled /\ Valid(arg.p) /\ n.i >= 1) =>
      /\ Len(stockPricesAtExpiry.v) = n.i
      /\ \A i \in 1..Len(stockPricesAtExpiry.v) :
           /\ Le(Zero, stockPricesAtExpiry.v[i])
           /\ (Le(Lit(1, 0), arg.p.s_0) /\ Le(Lit(-745, 0), Exponent(arg.p, arg.z[i]))) =>
                Lt(Zero, stockPricesAtExpiry.v[i])
           /\ Lt(Exponent(arg.p, arg.z[i]), Lit(-7452, -1)) =>
                stockPricesAtExpiry.v[i] = Zero

C2_Witness ==
    /\ Sampled /\ Valid(arg.p) /\ n.i = 2
    /\ Len(stockPricesAtExpiry.v) = 2
    /\ Lt(Exponent(arg.p, arg.z[1]), Lit(-7452, -1))
    /\ stockPricesAtExpiry.v[1] = Zero
    /\ Lt(Zero, stockPricesAtExpiry.v[2])

\* C3: the payoff sequence is as long as the price sequence; for every price
\* (a number, not NaN) the payoff is >= 0, equals S_i - K where S_i > K and is 0
\* otherwise; with K = 105 the price 100 pays 0 and the price 110 pays 5.
C3_CallPayoff ==
    Paid =>
      /\ Len(optionValuesAtExpiry.v) = Len(stockPricesAtExpiry.v)
      /\ \A i \in 1..Len(stockPricesAtExpiry.v) :
           LET s == stockPricesAtExpiry.v[i]
               pay == optionValuesAtExpiry.v[i]
           IN  ~IsNaN(s) =>
                 /\ Le(Zero, pay)
                 /\ Lt(strikePrice, s) => pay = Sub(s, strikePrice)
                 /\ ~Lt(strikePrice, s) => pay = Zero
                 /\ (strikePrice = Lit(105, 0) /\ s = Lit(100, 0)) => pay = Zero
                 /\ (strikePrice = Lit(105, 0) /\ s = Lit(110, 0)) => pay = Lit(5, 0)

C3_Witness ==
    /\ Paid
    /\ strikePrice = Lit(105, 0)
    /\ Len(stockPricesAtExpiry.v) = 2
    /\ Lt(stockPricesAtExpiry.v[1], strikePrice) /\ optionValuesAtExpiry.v[1] = Zero
    /\ stockPricesAtExpiry.v[2] = Lit(1206, -1)
    /\ optionValuesAtExpiry.v[2] = Lit(156, -1)

\* The sum of the elements divided by their number.
ArithmeticMean(v) == Div(SumTo(v, Len(v)), IntToFloat(Len(v)))

\* C4: for a non-empty payoff sequence the estimate is exp(-r*T) times the
\* arithmetic mean of the payoffs (their sum over their number).
C4_DiscountedMean ==
    (pc = "done" /\ Len(optionValuesAtExpiry.v) >= 1) =>
      presentOptionValue =
        Mul(NpExp(Mul(Neg(arg.p.r), arg.p.t)), ArithmeticMean(optionValuesAtExpiry.v))

C4_Witness ==
    /\ pc = "done"
    /\ Len(optionValuesAtExpiry.v) = 2
    /\ optionValuesAtExpiry.v[1] = Zero
    /\ Lt(Zero, optionValuesAtExpiry.v[2])
    /\ arg.p.r # Zero
    /\ Lt(Zero, presentOptionValue)
    /\ Lt(presentOptionValue, optionValuesAtExpiry.v[2])

\* C5 as stated: with S0 <= 0, T <= 0 or sigma < 0 the sampler fails with
\* InvalidParameter and returns no price sequence.
C5_InvalidParameterRejected ==
    (pc \notin {"prices", "assign", "sample"} /\ ~Valid(arg.p)) =>
      /\ exc = "InvalidParameter"
      /\ stockPricesAtExpiry = Undefined

\* C6 as stated: with an empty payoff sequence (n = 0) the estimator fails with
\* EmptyInput and returns no estimate.
C6_EmptyInputRejected ==
    (Paid /\ Len(optionValuesAtExpiry.v) = 0 /\ pc # "average") =>
      /\ pc = "raised" /\ exc = "EmptyInput"
      /\ averageForwardOptionValue = Undefined
      /\ presentOptionValue = Undefined

\* C7 as stated: the payoff evaluator rejects K <= 0 with InvalidParameter, and
\* for every K > 0 returns a payoff sequence.
C7_NonPositiveStrikeRejected ==
    (strikePrice # Undefined) =>
      /\ Le(strikePrice, Zero) => (exc = "InvalidParameter" /\ ~Paid)
      /\ Lt(Zero, strikePrice) => Paid

\* C8: with sigma = 0, S0 > 0 and T > 0 the sampler returns, and every element
\* is S0 * exp(r*T) whatever the draws; in scenario 2 (S0=100, r=0.03, T=0.25)
\* that is 100.753 to the model's precision.
C8_ZeroVolatility ==
    (pc \notin {"prices", "assign", "sample"} /\ arg.p.sigma = Zero
       /\ Lt(Zero, arg.p.s_0) /\ Lt(Zero, arg.p.t)) =>
      /\ Sampled
      /\ Len(stockPricesAtExpiry.v) = Len(arg.z)
      /\ \A i \in 1..Len(arg.z) :
           /\ stockPricesAtExpiry.v[i] = Mul(arg.p.s_0, NpExp(Mul(arg.p.r, arg.p.t)))
           /\ arg.p = Scenario2 =>
                Near(stockPricesAtExpiry.v[i], Lit(100753, -3), Lit(1, -1))

C8_Witness ==
    /\ Sampled
    /\ arg.p = Scenario2
    /\ Len(arg.z) = 2 /\ arg.z[1] = Lit(-4, 0) /\ arg.z[2] = Lit(1, 0)
    /\ stockPricesAtExpiry.v[1] = Lit(1008, -1)
    /\ stockPricesAtExpiry.v[2] = Lit(1008, -1)

\* The estimate the run's prices, n, r and t give with strike k.
EstimateFor(k) ==
    PresentOptionValue(
        AverageForwardOptionValue(OptionValuesAtExpiry(stockPricesAtExpiry, k), n.i), r, t)

\* C10: with the terminal prices (numbers, not NaN), r and T of a run held fixed,
\* for strikes K1 <= K2 the estimate with K2 is at most the estimate with K1.
C10_MonotoneInStrike ==
    (pc = "done" /\ \A i \in 1..Len(stockPricesAtExpiry.v) : ~IsNaN(stockPricesAtExpiry.v[i])) =>
      \A k2 \in Strikes :
        /\ Le(strikePrice, k2) => Le(EstimateFor(k2), presentOptionValue)
        /\ Le(k2, strikePrice) => Le(presentOptionValue, EstimateFor(k2))

C10_Witness ==
    /\ pc = "done"
    /\ strikePrice = Lit(95, 0)
    /\ Lt(Zero, EstimateFor(Lit(105, 0)))
    /\ Lt(EstimateFor(Lit(105, 0)), presentOptionValue)
    /\ Lt(presentOptionValue, EstimateFor(Zero))

\* C11: for every payoff sequence the payoff evaluator produces from prices
\* (numbers, not NaN) and every r and T, the estimate returned is >= 0: the one
\* the run computes, and the one any other rate (also a negative one) and any
\* other time give on the same payoffs.
C11_PresentValueNonNegative ==
    (pc = "done" /\ \A i \in 1..Len(optionValuesAtExpiry.v) :
                       ~IsNaN(optionValuesAtExpiry.v[i])) =>
      /\ Le(Zero, presentOptionValue)
      /\ \A rr \in Rates \cup {Lit(-3, -2)}, tt \in Times \cup BadTimes :
           LET v == PresentOptionValue(averageForwardOptionValue, rr, tt)
           IN  ~IsErr(v) /\ Le(Zero, v)

C11_Witness ==
    /\ pc = "done"
    /\ strikePrice = Lit(95, 0)
    /\ stockPricesAtExpiry.v = <<Lit(9876, -2), Lit(1206, -1)>>
    /\ optionValuesAtExpiry.v = <<Lit(376, -2), Lit(256, -1)>>
    /\ Lt(Zero, presentOptionValue)
    /\ Lt(presentOptionValue,
          PresentOptionValue(averageForwardOptionValue, Lit(-3, -2), Lit(50, 0)))

\* C12: in a run of the pipeline the discount factor is exp(-r*t) of the same r
\* and t the sampler was called with: the prices are the sampler's for the run's
\* r and t, and the estimate is the average times exp(-r*t) for those r and t.
C12_DiscountUsesSamplingRateAndTime ==
    pc = "done" =>
      /\ r = arg.p.r /\ t = arg.p.t
      /\ stockPricesAtExpiry = bsm(arg.p.s_0, r, arg.p.sigma, t, Arr(arg.z))
      /\ presentOptionValue = Mul(averageForwardOptionValue, NpExp(Mul(Neg(r), t)))

C12_Witness ==
    /\ pc = "done"
    /\ r = Lit(3, -2) /\ t = Lit(50, 0)
    /\ Lt(Zero, presentOptionValue)
    /\ Lt(presentOptionValue, Mul(averageForwardOptionValue, Lit(3, -1)))

\* C13: for valid parameters, element i of the vectorized sampler's output over
\* a batch is the value the scalar sampler (math.exp, math.sqrt) returns when
\* called once on draw Z_i with the same parameters.
C13_VectorizedEqualsScalar ==
    (Sampled /\ Valid(arg.p)) =>
      \A i \in 1..Len(arg.z) :
        stockPricesAtExpiry.v[i] =
          bsm_scalar(arg.p.s_0, arg.p.r, arg.p.sigma, arg.p.t, arg.z[i])

C13_Witness ==
    /\ Sampled /\ Valid(arg.p)
    /\ arg.p.sigma = Lit(4, -1)
    /\ Len(arg.z) = 2 /\ arg.z[1] # arg.z[2]
    /\ IsFin(bsm_scalar(arg.p.s_0, arg.p.r, arg.p.sigma, arg.p.t, arg.z[1]))
    /\ stockPricesAtExpiry.v[1] =
          bsm_scalar(arg.p.s_0, arg.p.r, arg.p.sigma, arg.p.t, arg.z[1])
    /\ stockPricesAtExpiry.v[2] =
          bsm_scalar(arg.p.s_0, arg.p.r, arg.p.sigma, arg.p.t, arg.z[2])
    /\ stockPricesAtExpiry.v[1] # stockPricesAtExpiry.v[2]

\* The permutations of 1..k.
IndexPermutations(k) == {f \in [1..k -> 1..k] : \A a, b \in 1..k : f[a] = f[b] => a = b}

\* C15: when the sampler has returned, element i of its output depends only on the parameters and
\* on draw Z_i: the sampler applied to the draws permuted returns the output
\* permuted the same way, and with Z_j replaced by any other draw, j # i, it
\* returns the same S_i.
C15_PerIndexIndependence ==
    pc = "payoff" =>
      LET k == Len(arg.z)
          S(z) == bsm(arg.p.s_0, arg.p.r, arg.p.sigma, arg.p.t, Arr(z)).v
      IN  /\ \A f \in IndexPermutations(k) :
               S([i \in 1..k |-> arg.z[f[i]]]) = [i \in 1..k |-> stockPricesAtExpiry.v[f[i]]]
          /\ \A j \in 1..k, d \in Draws, i \in 1..k :
               i # j => S([arg.z EXCEPT ![j] = d])[i] = stockPricesAtExpiry.v[i]

C15_Witness ==
    /\ pc = "payoff"
    /\ Len(arg.z) = 2
    /\ arg.z[1] = Lit(-4, 0) /\ arg.z[2] = Lit(1, 0)
    /\ stockPricesAtExpiry.v[1] # stockPricesAtExpiry.v[2]
    /\ bsm(arg.p.s_0, arg.p.r, arg.p.sigma, arg.p.t, Arr(<<arg.z[2], arg.z[1]>>)).v
         = <<stockPricesAtExpiry.v[2], stockPricesAtExpiry.v[1]>>
    /\ bsm(arg.p.s_0, arg.p.r, arg.p.sigma, arg.p.t, Arr(<<arg.z[1], Zero>>)).v[1]
         = stockPricesAtExpiry.v[1]

\* C14 as stated: with invalid parameters the sampler's error is raised before
\* any draw is taken from the random source and before the payoff or the
\* discounting runs: once the statement calling the sampler has run, the run has
\* ended with InvalidParameter, no draw consumed, no payoff and no estimate.
C14_InvalidParametersRejectedEagerly ==
    (~Valid(arg.p) /\ pc # "prices") =>
      /\ pc = "raised" /\ exc = "InvalidParameter"
      /\ rng.pos = 0
      /\ optionValuesAtExpiry = Undefined
      /\ presentOptionValue = Undefined

\* C16: in any sequence of cells and slider callbacks every sampler call is
\* given draws the source gives for that call and has given to no call before
\* (no draw is ever passed twice), and no step seeds the source or sets it back.
C16_FreshBatchPerCall ==
    [][/\ \A i \in 1..Len(passed') : passed'[i] <= 1
       /\ rng'.seed = rng.seed
       /\ rng'.pos >= rng.pos
       /\ \A i \in 1..Len(calls') :
            /\ calls'[i].from = rng.pos + 1
            /\ calls'[i].to = rng'.pos
            /\ calls'[i].to >= calls'[i].from]_vars

C16_Witness ==
    /\ last = "cell6" /\ exc = "none"
    /\ slides >= 1
    /\ Len(calls) = 1 /\ calls[1].from > 1 + N10 + N1000
    /\ calls[1].to = rng.pos
    /\ Len(passed) = rng.pos
    /\ \A i \in 1..Len(passed) : passed[i] = 1

\* What the option cell computes from the draws it is given and nothing else.
OptionCellPrices(z) == bsm(Lit(100, 0), Lit(3, -2), Lit(4, -1), Lit(25, -2), Arr(z))
OptionCellEstimate(z) ==
    PresentOptionValue(
        AverageForwardOptionValue(OptionValuesAtExpiry(OptionCellPrices(z), Lit(105, 0)),
                                  Len(z)),
        Lit(3, -2), Lit(25, -2))

\* C17: a call of plot_histogram, by a slider or by interact when the sliders
\* are displayed, consumes draws and leaves every name of the kernel as it was
\* (n, r, t, prices, strikePrice, the option cell's results, the binding of bsm
\* and of every other name); and the option cell, run after any such calls,
\* computes what its own draws alone determine.
C17_SliderCallbacksLeaveKernelAlone ==
    [][/\ (slides' # slides \/ last' = "cell4") =>
            /\ n' = n /\ r' = r /\ t' = t
            /\ prices' = prices
            /\ strikePrice' = strikePrice
            /\ stockPricesAtExpiry' = stockPricesAtExpiry
            /\ optionValuesAtExpiry' = optionValuesAtExpiry
            /\ averageForwardOptionValue' = averageForwardOptionValue
            /\ presentOptionValue' = presentOptionValue
            /\ names'["bsm"] = names["bsm"]
            /\ slides' # slides => names' = names
       /\ (last' = "cell6" /\ exc' = "none") =>
            /\ stockPricesAtExpiry' = OptionCellPrices(BatchOf(calls[1])')
            /\ presentOptionValue' = OptionCellEstimate(BatchOf(calls[1])')]_vars

C17_Witness ==
    /\ last = "slide" /\ exc = "none"
    /\ Len(calls) = 1 /\ calls[1].site = "plot_histogram"
    /\ n = PyInt(N100000)
    /\ IsArr(prices) /\ Len(prices.v) = N100000
    /\ r = Lit(3, -2) /\ t = Lit(25, -2)
    /\ calls[1].p.r # r /\ calls[1].p.t # t
    /\ IsFin(presentOptionValue)
    /\ presentOptionValue =
         OptionCellEstimate([i \in 1..N100000 |->
                               Stream(rng.seed, calls[1].from - N100000 + i - 1)])

\* C18: whenever the option cell has computed its average, after whatever
\* cells (which set n to other values) and slider callbacks ran before, the n it
\* divided by is the number of draws its sampler call was given and the length of
\* the payoff sequence summed, and the average is the arithmetic mean.
C18_DivisorIsNumberOfDraws ==
    /\ (last = "cell6" /\ exc = "none") =>
         /\ Len(calls) = 1
         /\ n.i = calls[1].to - calls[1].from + 1
         /\ n.i = Len(stockPricesAtExpiry.v)
         /\ n.i = Len(optionValuesAtExpiry.v)
    /\ averageForwardOptionValue # Undefined =>
         averageForwardOptionValue = ArithmeticMean(optionValuesAtExpiry.v)

C18_Witness ==
    /\ last = "cell6" /\ exc = "none"
    /\ n = PyInt(N100000)
    /\ rng.pos = 1 + N10 + N1000000 + N100000
    /\ calls[1].from = 2 + N10 + N1000000
    /\ Len(optionValuesAtExpiry.v) = N100000
    /\ Lt(Zero, averageForwardOptionValue)

\* C19: with the cells run from top to bottom, every call that passes a batch
\* of draws to bsm (the 10-sample print, the histogram cell, every call of
\* plot_histogram, the mean-price cell, the option cell) is made with bsm bound
\* to the vectorized definition, and none of them raises.
C19_BatchCallsUseVectorized ==
    /\ \A i \in 1..Len(calls) : calls[i].array => calls[i].def = "vectorized"
    /\ cellsRun >= 2 => names["bsm"] = "vectorized"
    /\ last \notin {"none", "cell7"} => (Len(calls) = 1 /\ exc = "none")
    /\ last \notin {"none", "cell1", "cell7"} => calls[1].array

C19_Witness ==
    /\ cellsRun = 6 /\ slides = MaxSlides
    /\ last = "slide" /\ exc = "none"
    /\ calls[1].site = "plot_histogram"
    /\ calls[1].array /\ calls[1].def = "vectorized"
    /\ IsFin(presentOptionValue)

\* C20: every value the three sliders can take (r from 0.0 to 0.2, sigma from
\* 0.01 to 1.0, t from 0.01 to 2, in steps of 0.01) gives, with S0 = 100, valid
\* parameters: S0 > 0, T > 0, sigma >= 0; the sliders always stand inside their
\* ranges, and every call plot_histogram makes has valid parameters.
C20_SliderParametersValid ==
    /\ last = "cell4" =>
         /\ \A v \in SliderValues("sigma") : Le(Zero, v)
         /\ \A v \in SliderValues("t") : Lt(Zero, v)
    /\ sliders.c = "widgets" =>
         /\ \A s \in {"r", "sigma", "t"} :
              Sliders[s].lo <= sliders[s] /\ sliders[s] <= Sliders[s].hi
         /\ Valid([s_0 |-> Lit(100, 0), r |-> SliderValue(sliders.r),
                   sigma |-> SliderValue(sliders.sigma), t |-> SliderValue(sliders.t)])
    /\ \A i \in 1..Len(calls) :
         calls[i].site = "plot_histogram" =>
           /\ calls[i].p.s_0 = Lit(100, 0)
           /\ Valid(calls[i].p)
           /\ exc \notin {"ValueError", "OverflowError"}

C20_Witness ==
    /\ last = "slide" /\ exc = "none"
    /\ sliders.sigma = Sliders["sigma"].lo
    /\ sliders.t = Sliders["t"].lo
    /\ calls[1].site = "plot_histogram"
    /\ calls[1].p.sigma = Lit(1, -2) /\ calls[1].p.t = Lit(1, -2)

\* The floor of x/y for a positive y: the one integer q with q*y <= x < (q+1)*y.
Floor(x, y) ==
    CHOOSE q \in (0 - Abs(x) - 1)..(Abs(x) + 1) : q * y <= x /\ x < (q + 1) * y

\* C21: the quotient of two integers is its floor, taken left to right: for
\* integers x >= 0 and y > 0, sqrtRatio(x, y) returns the square root of
\* floor(x / y), which is below the square root of the exact ratio whenever y
\* does not divide x (sqrtRatio(9, 4) is sqrt(2) = 1.414..., not 1.5), and
\* x/y*z is the integer floor(x / y) * z (3/4*4 is 0).
C21_IntegerDivisionFloors ==
    /\ (pc = "ratio" /\ arg.x >= 0 /\ arg.y > 0) =>
          /\ exc = "none"
          /\ printed = <<NpSqrt(IntToFloat(Floor(arg.x, arg.y)))>>
          /\ arg.x % arg.y # 0 =>
                Lt(printed[1], NpSqrt(Div(IntToFloat(arg.x), IntToFloat(arg.y))))
          /\ (arg.x = 9 /\ arg.y = 4) =>
                printed = <<NpSqrt(IntToFloat(2))>> /\ printed[1] # Lit(15, -1)
    /\ (pc = "product" /\ arg.x >= 0 /\ arg.y > 0) =>
          /\ exc = "none"
          /\ Len(printed) = 1 /\ printed[1].c = "int"
          /\ printed[1].i = Floor(arg.x, arg.y) * arg.z
          /\ (arg.x = 3 /\ arg.y = 4 /\ arg.z = 4) => printed[1].i = 0

C21_Witness ==
    /\ pc = "ratio" /\ arg.x = 9 /\ arg.y = 4 /\ exc = "none"
    /\ printed = <<Lit(1414, -3)>>

\* The sampler's output written as a function of the parameters and the draws
\* passed, and of nothing else.
TerminalPrices(p, z) == [i \in 1..Len(z) |-> Mul(p.s_0, NpExp(Exponent(p, z[i])))]

\* A call of the vectorized sampler on a batch.
Batched(c) == c.array /\ c.def = "vectorized"

\* The draws of a call, as the source seeded with seed gave them.
DrawsOf(seed, c) == [i \in 1..(c.to - c.from + 1) |-> Stream(seed, c.from + i - 1)]

\* C9: in any sequence of cells and slider callbacks, whatever the kernel's n,
\* r, t and prices are and wherever the random source stands when the sampler
\* is called, its output is the function of its parameters and of the draws
\* passed to it; and two calls made one after the other with the same
\* parameters and the same draws return the same sequence.
C9_SameArgumentsSameOutput ==
    [][/\ \A i \in 1..Len(calls') :
            Batched(calls'[i]) =>
              /\ IsArr(calls'[i].value)
              /\ calls'[i].value.v =
                   TerminalPrices(calls'[i].p, DrawsOf(rng'.seed, calls'[i]))
       /\ (/\ Len(calls) = 1 /\ Len(calls') = 1
           /\ Batched(calls[1]) /\ Batched(calls'[1])
           /\ calls'[1].p = calls[1].p
           /\ DrawsOf(rng'.seed, calls'[1]) = DrawsOf(rng.seed, calls[1])) =>
             calls'[1].value = calls[1].value]_vars

C9_Witness ==
    /\ last = "cell4" /\ Len(calls) = 1 /\ Batched(calls[1])
    /\ IsArr(prices) /\ r.c = "fin" /\ t.c = "fin" /\ n.c = "int"
    /\ calls[1].p.r # r /\ calls[1].p.t # t
    /\ rng.pos > N1000
    /\ IsArr(calls[1].value) /\ Len(calls[1].value.v) = N1000
    /\ calls[1].value.v = TerminalPrices(calls[1].p, BatchOf(calls[1]))

====
